---- MODULE Spec2Model ----
(***************************************************************************)
(* A model of flow/MkCert.cpp: test certificate and key generation.       *)
(*                                                                         *)
(* Keys are numbered: an EVP_PKEY is the number of its key pair, and a     *)
(* certificate records the number of the pair whose public key it holds   *)
(* (pubkey) and of the private key that signed it (signedWith).  A PEM     *)
(* text is a sequence of armoured blocks; StringRef::size() is its length. *)
(***************************************************************************)
EXTENDS Integers, Sequences, FiniteSets, TLC

\* ---------------------------------------------------------------- bounds
MaxLen == 3          \* longest spec list / chain length a caller asks for
MaxSerial == 2       \* serial numbers are drawn from 0 .. MaxSerial-1
MaxConcat == 2       \* longest chain handed to concatCertChain
NumExternalKeys == 2 \* key pairs that exist outside (caller-supplied issuers)

\* ------------------------------------------------------- program constants
X509_VERSION_3 == 2
OneYear == 60 * 60 * 24 * 365

\* ------------------------------------------------------------------ kinds
Sides == {"Server", "Client"}

Server == [tag |-> "Server", level |-> 0]
Client == [tag |-> "Client", level |-> 0]
ServerRootCA == [tag |-> "ServerRootCA", level |-> 0]
ClientRootCA == [tag |-> "ClientRootCA", level |-> 0]
ServerIntermediateCA(level) == [tag |-> "ServerIntermediateCA", level |-> level]
ClientIntermediateCA(level) == [tag |-> "ClientIntermediateCA", level |-> level]

CertKinds ==
    {Server, Client, ServerRootCA, ClientRootCA}
        \cup {ServerIntermediateCA(l) : l \in 0..MaxLen}
        \cup {ClientIntermediateCA(l) : l \in 0..MaxLen}

isServerSide(kind) == kind.tag \in {"ServerRootCA", "ServerIntermediateCA", "Server"}
isClientSide(kind) == ~isServerSide(kind)
isRootCA(kind) == kind.tag \in {"ServerRootCA", "ClientRootCA"}
isIntermediateCA(kind) == kind.tag \in {"ServerIntermediateCA", "ClientIntermediateCA"}
isLeaf(kind) == kind.tag \in {"Server", "Client"}
isCA(kind) == ~isLeaf(kind)

\* The common name: the prefix, then the role, then (intermediates) the level.
getCommonName(kind, prefix) ==
    <<prefix, IF isServerSide(kind) THEN "Server" ELSE "Client">>
        \o (IF isRootCA(kind) THEN <<"Root CA">>
            ELSE IF isIntermediateCA(kind) THEN <<"Intermediate CA", ToString(kind.level)>>
            ELSE <<>>)

\* a builder that gives every kind, roots too, an authority key identifier
CertSpecRef_make_alwaysAKI(kind, serial) ==
    [serialNumber |-> serial,
     offsetNotBefore |-> 0,
     offsetNotAfter |-> OneYear,
     subjectName |->
        << <<"countryName", <<"DE">> >>,
           <<"localityName", <<"Berlin">> >>,
           <<"organizationName", <<"FoundationDB">> >>,
           <<"commonName", getCommonName(kind, "FDB Testing Services")>> >>,
     extensions |->
        (IF isCA(kind)
            THEN << <<"basicConstraints", "critical, CA:TRUE">>,
                    <<"keyUsage", "critical, digitalSignature, keyCertSign, cRLSign">> >>
            ELSE << <<"basicConstraints", "critical, CA:FALSE">>,
                    <<"keyUsage", "critical, digitalSignature, keyEncipherment">>,
                    <<"extendedKeyUsage", "serverAuth, clientAuth">> >>)
        \o << <<"subjectKeyIdentifier", "hash">> >>
        \o << <<"authorityKeyIdentifier", "keyid, issuer">> >>]

\* ------------------------------------------------------------ CertSpecRef
CertSpecRef_make(kind, serial) ==
    [serialNumber |-> serial,
     offsetNotBefore |-> 0,
     offsetNotAfter |-> OneYear,
     subjectName |->
        << <<"countryName", <<"DE">> >>,
           <<"localityName", <<"Berlin">> >>,
           <<"organizationName", <<"FoundationDB">> >>,
           <<"commonName", getCommonName(kind, "FDB Testing Services")>> >>,
     extensions |->
        (IF isCA(kind)
            THEN << <<"basicConstraints", "critical, CA:TRUE">>,
                    <<"keyUsage", "critical, digitalSignature, keyCertSign, cRLSign">> >>
            ELSE << <<"basicConstraints", "critical, CA:FALSE">>,
                    <<"keyUsage", "critical, digitalSignature, keyEncipherment">>,
                    <<"extendedKeyUsage", "serverAuth, clientAuth">> >>)
        \o << <<"subjectKeyIdentifier", "hash">> >>
        \o (IF ~isRootCA(kind)
               THEN << <<"authorityKeyIdentifier", "keyid, issuer">> >>
               ELSE <<>>)]

\* ------------------------------------------------- native certs and keys
NullKey == 0
NullCert ==
    [version |-> 0, serialNumber |-> 0, notBefore |-> 0, notAfter |-> 0,
     pubkey |-> NullKey, subject |-> <<>>, issuer |-> <<>>,
     extensions |-> <<>>, signedWith |-> NullKey]

\* CertAndKeyNative{}: both shared_ptr null
NullNative == [cert |-> NullCert, privateKey |-> NullKey]

valid(n) == n.cert # NullCert /\ n.privateKey # NullKey
null(n) == n.cert = NullCert /\ n.privateKey = NullKey

\* ---------------------------------------------------------------- PEM text
\* StringRef(): the empty text
EmptyText == <<>>
CertBlock(c) == [type |-> "CERTIFICATE", cert |-> c, key |-> NullKey]
KeyBlock(k) == [type |-> "PRIVATE KEY", cert |-> NullCert, key |-> k]

\* CertAndKeyRef{} and CertAndKeyRef::empty()
EmptyRef == [certPem |-> EmptyText, privateKeyPem |-> EmptyText]
empty(ref) == ref.certPem = EmptyText /\ ref.privateKeyPem = EmptyText
deepCopy(ref) == [certPem |-> ref.certPem, privateKeyPem |-> ref.privateKeyPem]

\* a check that records the failure and carries on
OSSL_ASSERT_noThrow(condition) == "none"

\* OSSL_ASSERT(condition): throws tls_error when the condition is false
OSSL_ASSERT(condition) == IF condition THEN "none" ELSE "tls_error"
\* ASSERT(condition): throws internal_error when the condition is false
ASSERT(condition) == IF condition THEN "none" ELSE "internal_error"

\* The first block of the wanted type, as PEM_read_bio_* finds it; 0 if none.
FirstBlock(text, type) ==
    IF \E k \in 1..Len(text) : text[k].type = type
        THEN CHOOSE k \in 1..Len(text) :
                /\ text[k].type = type
                /\ \A j \in 1..(k-1) : text[j].type # type
        ELSE 0

readX509CertPem(x509CertPem) ==
    IF ASSERT(x509CertPem # EmptyText) # "none"
        THEN [err |-> "internal_error", cert |-> NullCert]
    ELSE LET k == FirstBlock(x509CertPem, "CERTIFICATE") IN
         IF OSSL_ASSERT(k # 0) # "none"
            THEN [err |-> "tls_error", cert |-> NullCert]
            ELSE [err |-> "none", cert |-> IF k = 0 THEN NullCert ELSE x509CertPem[k].cert]

readPrivateKeyPem(privateKeyPem) ==
    IF ASSERT(privateKeyPem # EmptyText) # "none"
        THEN [err |-> "internal_error", key |-> NullKey]
    ELSE LET k == FirstBlock(privateKeyPem, "PRIVATE KEY") IN
         IF OSSL_ASSERT(k # 0) # "none"
            THEN [err |-> "tls_error", key |-> NullKey]
            ELSE [err |-> "none", key |-> IF k = 0 THEN NullKey ELSE privateKeyPem[k].key]

writeX509CertPem(nativeCert) == <<CertBlock(nativeCert)>>
writePrivateKeyPem(nativePrivateKey) == <<KeyBlock(nativePrivateKey)>>

\* a decoder that returns its result before filling it in
fromPem_unset(certAndKey) == [err |-> "none", native |-> NullNative]

\* ------------------------------------------------------- CertAndKeyNative
fromPem(certAndKey) ==
    IF empty(certAndKey)
        THEN [err |-> "none", native |-> NullNative]
    ELSE IF ASSERT(certAndKey.certPem # EmptyText /\ certAndKey.privateKeyPem # EmptyText) # "none"
        THEN [err |-> "internal_error", native |-> NullNative]
    ELSE LET c == readX509CertPem(certAndKey.certPem) IN
         IF c.err # "none"
            THEN [err |-> c.err, native |-> NullNative]
         ELSE LET k == readPrivateKeyPem(certAndKey.privateKeyPem) IN
              IF k.err # "none"
                 THEN [err |-> k.err, native |-> NullNative]
                 ELSE [err |-> "none", native |-> [cert |-> c.cert, privateKey |-> k.key]]

\* fault = "pem": the provider fails while writing the text
toPem(native, fault) ==
    IF null(native)
        THEN [err |-> "none", pem |-> EmptyRef]
    ELSE IF ASSERT(valid(native)) # "none"
        THEN [err |-> "internal_error", pem |-> EmptyRef]
    ELSE IF OSSL_ASSERT(fault # "pem") # "none"
        THEN [err |-> "tls_error", pem |-> EmptyRef]
    ELSE [err |-> "none",
          pem |-> [certPem |-> writeX509CertPem(native.cert),
                   privateKeyPem |-> writePrivateKeyPem(native.privateKey)]]

\* --------------------------------------------------------- makeCertNative
\* The key identifier an extension list gives its certificate (0: none).
SubjectKeyIdOf(exts) ==
    IF \E k \in 1..Len(exts) : exts[k].name = "subjectKeyIdentifier"
        THEN exts[CHOOSE k \in 1..Len(exts) : exts[k].name = "subjectKeyIdentifier"].keyid
        ELSE NullKey

\* X509V3_EXT_conf under the context (issuer certificate, subject certificate)
X509V3_EXT_conf(issuerExts, subjectPubkey, extName, extValue) ==
    [name |-> extName, value |-> extValue,
     keyid |-> IF extName = "subjectKeyIdentifier" THEN subjectPubkey
               ELSE IF extName = "authorityKeyIdentifier" THEN SubjectKeyIdOf(issuerExts)
               ELSE NullKey]

\* The loop over spec.extensions: each is evaluated, then appended to x.
RECURSIVE addExtensions(_, _, _, _, _)
addExtensions(entries, added, isSelfSigned, issuerCert, subjectPubkey) ==
    IF entries = <<>> THEN added
    ELSE LET ext == X509V3_EXT_conf(IF isSelfSigned THEN added ELSE issuerCert.extensions,
                                    subjectPubkey, Head(entries)[1], Head(entries)[2])
         IN addExtensions(Tail(entries), Append(added, ext), isSelfSigned, issuerCert,
                          subjectPubkey)

\* X509_set_pubkey(x, ...)
certPublicKey(nativeKeyPair, issuer) == nativeKeyPair

\* X509_set_issuer_name(x, ...)
issuerNameFor(isSelfSigned, subjectName, issuer) ==
    IF isSelfSigned THEN subjectName ELSE issuer.cert.subject

\* a signer that always uses the new certificate's own key
signingKeyFor_own(isSelfSigned, nativeKeyPair, issuer) == nativeKeyPair

\* X509_sign(x, ...)
signingKeyFor(isSelfSigned, nativeKeyPair, issuer) ==
    IF isSelfSigned THEN nativeKeyPair ELSE issuer.privateKey

\* The key pair returned with the certificate
returnedKey(nativeKeyPair, issuer) == nativeKeyPair

\* a check that takes any issuer lacking a certificate or a key, and signs
\* with whatever the issuer holds
issuerCheck_lax(issuer) == [err |-> "none", isSelfSigned |-> null(issuer)]

\* isSelfSigned, after the assertion on the issuer
issuerCheck(issuer) ==
    [err |-> ASSERT(valid(issuer) \/ null(issuer)), isSelfSigned |-> null(issuer)]

\* freshKey: the pair makeEllipticCurveKeyPairNative creates when it succeeds.
\* fault = "keygen": key generation fails; fault = "x509": a later provider call
\* (building, extending or signing the certificate) fails.
\* keygen: the number of key pairs generated by the call.
makeCertNative(spec, issuer, freshKey, fault) ==
    LET chk == issuerCheck(issuer) IN
    IF chk.err # "none"
        THEN [err |-> chk.err, native |-> NullNative, keygen |-> 0]
    ELSE IF OSSL_ASSERT(fault # "keygen") # "none"
        THEN [err |-> "tls_error", native |-> NullNative, keygen |-> 0]
    ELSE IF OSSL_ASSERT(fault # "x509") # "none"
        THEN [err |-> "tls_error", native |-> NullNative, keygen |-> 1]
    ELSE LET isSelfSigned == chk.isSelfSigned
             nativeKeyPair == freshKey
             x == [version |-> X509_VERSION_3,
                   serialNumber |-> spec.serialNumber,
                   notBefore |-> spec.offsetNotBefore,
                   notAfter |-> spec.offsetNotAfter,
                   pubkey |-> certPublicKey(nativeKeyPair, issuer),
                   subject |-> spec.subjectName,
                   issuer |-> issuerNameFor(isSelfSigned, spec.subjectName, issuer),
                   extensions |-> addExtensions(spec.extensions, <<>>, isSelfSigned,
                                                issuer.cert, nativeKeyPair),
                   signedWith |-> signingKeyFor(isSelfSigned, nativeKeyPair, issuer)]
         IN [err |-> "none",
             native |-> [cert |-> x, privateKey |-> returnedKey(nativeKeyPair, issuer)],
             keygen |-> 1]

\* ------------------------------------------------------ makeCertChainSpec
\* serials[i+1]: the serial number CertSpecRef::make draws for position i
\* a position test that looks for the root before the leaf
kindAt_rootFirst(i, length, serverSide) ==
    IF i = length - 1 THEN (IF serverSide THEN ServerRootCA ELSE ClientRootCA)
    ELSE IF i = 0 THEN (IF serverSide THEN Server ELSE Client)
    ELSE (IF serverSide THEN ServerIntermediateCA(i) ELSE ClientIntermediateCA(i))

kindAt(i, length, serverSide) ==
    IF i = 0 THEN (IF serverSide THEN Server ELSE Client)
    ELSE IF i = length - 1 THEN (IF serverSide THEN ServerRootCA ELSE ClientRootCA)
    ELSE (IF serverSide THEN ServerIntermediateCA(i) ELSE ClientIntermediateCA(i))

makeCertChainSpec(length, side, serials) ==
    IF length = 0 THEN <<>>
    ELSE [p \in 1..length |->
            CertSpecRef_make(kindAt(p - 1, length, side = "Server"), serials[p])]

\* --------------------------------------------------------- concatCertChain
\* chains are arrays indexed from 0
ChainSize(chain) == Cardinality(DOMAIN chain)

RECURSIVE SumCertSizes(_, _)
SumCertSizes(chain, k) ==
    IF k >= ChainSize(chain) THEN 0
    ELSE Len(chain[k].certPem) + SumCertSizes(chain, k + 1)

\* memcpy(&buf[offset], src, size): buf is indexed from 0
memcpy(buf, offset, src) ==
    [b \in DOMAIN buf |->
        IF b >= offset /\ b < offset + Len(src) THEN src[b - offset + 1] ELSE buf[b]]

\* an offset that is never advanced
advance_none(entry) == 0

\* what the second loop adds to offset for an entry
advance(entry) == Len(entry.certPem)

\* the bytes the second loop copies for an entry
copied(entry) == entry.certPem

RECURSIVE concatFill(_, _, _, _)
concatFill(chain, k, buf, offset) ==
    IF k >= ChainSize(chain) THEN [buf |-> buf, offset |-> offset]
    ELSE concatFill(chain, k + 1, memcpy(buf, offset, copied(chain[k])),
                    offset + advance(chain[k]))

\* uninitialised buffer bytes
Junk == [type |-> "JUNK", cert |-> NullCert, key |-> NullKey]

concatCertChain(chain) ==
    LET len == SumCertSizes(chain, 0) IN
    IF len = 0 THEN [err |-> "none", bytes |-> EmptyText]
    ELSE LET r == concatFill(chain, 0, [b \in 0..(len - 1) |-> Junk], 0) IN
         IF r.offset # len
            THEN [err |-> "internal_error", bytes |-> EmptyText]
            ELSE [err |-> "none", bytes |-> [b \in 1..len |-> r.buf[b - 1]]]

\* ------------------------------------------------------------ makeCertChain
\* a chain length that forgets the slot of the supplied root
chainLengthFor_noRoot(sp, needRootCA) == Len(sp)

chainLengthFor(sp, needRootCA) == IF needRootCA THEN Len(sp) ELSE Len(sp) + 1

\* new (arena) CertAndKeyRef[chainLength]: default-constructed entries
newChain(n) == [k \in 0..(n - 1) |-> EmptyRef]

\* ------------------------------------------------------------------ inputs
Faults == {"none", "keygen", "x509", "pem"}
Serials == 0..(MaxSerial - 1)
ExternalKeys == 1..NumExternalKeys

\* the k-th key pair generated in a call is new: no issuer supplied holds it
FreshKey(k) == NumExternalKeys + k + 1

NoSpec ==
    [serialNumber |-> 0, offsetNotBefore |-> 0, offsetNotAfter |-> 0,
     subjectName |-> <<>>, extensions |-> <<>>]

\* the specs callers put in hand-written lists
CallerSpecs ==
    {CertSpecRef_make(Server, 0), CertSpecRef_make(ServerIntermediateCA(1), 0),
     CertSpecRef_make(ServerRootCA, 0), CertSpecRef_make(Client, MaxSerial - 1)}

SpecLists == UNION {[1..n -> CallerSpecs] : n \in 0..MaxLen}

\* a root certificate made earlier, holding the public key of pair p
ExternalCert(p) ==
    makeCertNative(CertSpecRef_make(ServerRootCA, 0), NullNative, p, "none").native.cert

\* issuers in text form: none, certificate with a key (its own or another),
\* certificate alone, key alone, a text that holds no certificate, and a
\* certificate text that starts with a block of another type
IssuerPems ==
    {EmptyRef}
        \cup {[certPem |-> writeX509CertPem(ExternalCert(p)),
               privateKeyPem |-> writePrivateKeyPem(q)] : p, q \in ExternalKeys}
        \cup {[certPem |-> writeX509CertPem(ExternalCert(1)), privateKeyPem |-> EmptyText],
              [certPem |-> EmptyText, privateKeyPem |-> writePrivateKeyPem(1)],
              [certPem |-> writePrivateKeyPem(1), privateKeyPem |-> writePrivateKeyPem(1)],
              [certPem |-> writePrivateKeyPem(2) \o writeX509CertPem(ExternalCert(1)),
               privateKeyPem |-> writePrivateKeyPem(1)]}

IssuerNatives ==
    {NullNative}
        \cup {[cert |-> ExternalCert(p), privateKey |-> q] : p, q \in ExternalKeys}
        \cup {[cert |-> ExternalCert(1), privateKey |-> NullKey],
              [cert |-> NullCert, privateKey |-> 1]}

\* certificate texts of 0, 1 and 2 blocks, and key texts, for concatCertChain
ConcatTexts ==
    {EmptyText, writeX509CertPem(ExternalCert(1)), writePrivateKeyPem(1),
     writeX509CertPem(ExternalCert(1)) \o writeX509CertPem(ExternalCert(2))}

ConcatEntries ==
    {[certPem |-> c, privateKeyPem |-> k] :
        c \in ConcatTexts, k \in {EmptyText, writePrivateKeyPem(2)}}

ConcatChains == UNION {[0..(n - 1) -> ConcatEntries] : n \in 0..MaxConcat}

\* ------------------------------------------------------------------- state
VARIABLES
    op,             \* the function the caller invoked
    pc,             \* "idle", "loop" (inside makeCertChain), "done", "error"
    err,            \* the error thrown: "none", "tls_error", "internal_error"
    args,           \* the caller's arguments
    specs,          \* makeCertChain: specs
    rootAuthority,  \* makeCertChain: rootAuthority
    chainLength,    \* makeCertChain: chainLength
    chain,          \* makeCertChain: the array chain[0 .. chainLength-1]
    i,              \* makeCertChain: the loop index
    caNative,       \* makeCertChain: caNative
    keysGenerated,  \* key pairs generated during the call
    signLog,        \* the calls of makeCertNative made during the call, in order
    natives,        \* the CertAndKeyNative values created during the call
    ret             \* what the call returned

vars ==
    <<op, pc, err, args, specs, rootAuthority, chainLength, chain, i, caNative,
      keysGenerated, signLog, natives, ret>>

NoArgs ==
    [specs |-> <<>>, rootAuthority |-> EmptyRef, length |-> 0, side |-> "Server",
     kind |-> Server, spec |-> NoSpec, issuer |-> EmptyRef, issuerNative |-> NullNative,
     chain |-> <<>>]

NoRet ==
    [returned |-> FALSE, chain |-> <<>>, specs |-> <<>>, spec |-> NoSpec,
     pem |-> EmptyRef, native |-> NullNative, bytes |-> EmptyText]

Init ==
    /\ op = "none"
    /\ pc = "idle"
    /\ err = "none"
    /\ args = NoArgs
    /\ specs = <<>>
    /\ rootAuthority = EmptyRef
    /\ chainLength = 0
    /\ chain = <<>>
    /\ i = 0
    /\ caNative = NullNative
    /\ keysGenerated = 0
    /\ signLog = <<>>
    /\ natives = {}
    /\ ret = NoRet

\* One call of makeCertNative followed by toPem and the store into chain[pos],
\* as the body of either loop and the root step do it.
SignAndStore(sp, pos, issuer, ch, fault) ==
    LET r == makeCertNative(sp[pos + 1], issuer, FreshKey(keysGenerated), fault)
        e == IF r.err = "none" THEN toPem(r.native, fault)
             ELSE [err |-> r.err, pem |-> EmptyRef]
    IN /\ keysGenerated' = keysGenerated + r.keygen
       /\ signLog' = Append(signLog, [pos |-> pos, issuer |-> issuer, fault |-> fault])
       /\ natives' = IF r.err = "none" THEN natives \cup {r.native} ELSE natives
       /\ IF e.err = "none"
            THEN /\ chain' = [ch EXCEPT ![pos] = e.pem]
                 /\ caNative' = r.native
                 /\ i' = pos - 1
                 /\ pc' = "loop"
                 /\ err' = "none"
            ELSE /\ chain' = ch
                 /\ caNative' = issuer
                 /\ i' = pos
                 /\ pc' = "error"
                 /\ err' = e.err

\* an entry that answers an empty spec list with an empty chain
rejectEmptySpecs_returnsEmpty ==
    /\ pc' = "done"
    /\ err' = "none"
    /\ ret' = [NoRet EXCEPT !.returned = TRUE]
    /\ UNCHANGED <<chainLength, chain, i, caNative, keysGenerated, signLog, natives>>

\* ASSERT_GT(specs.size(), 0) failing: the call throws before anything is made
rejectEmptySpecs ==
    /\ pc' = "error"
    /\ err' = ASSERT(FALSE)
    /\ ret' = NoRet
    /\ UNCHANGED <<chainLength, chain, i, caNative, keysGenerated, signLog, natives>>

\* makeCertChain(arena, specs, rootAuthority) up to its loop
EnterMakeCertChain(sp, root, fault) ==
    /\ specs' = sp
    /\ rootAuthority' = root
    /\ IF ~(Len(sp) > 0)
         THEN rejectEmptySpecs
         ELSE LET needRootCA == empty(root)
                  n == chainLengthFor(sp, needRootCA)
              IN /\ chainLength' = n
                 /\ ret' = NoRet
                 /\ IF needRootCA
                      THEN SignAndStore(sp, n - 1, NullNative, newChain(n), fault)
                      ELSE LET d == fromPem(root) IN
                           /\ UNCHANGED <<keysGenerated, signLog>>
                           /\ IF d.err # "none"
                                THEN /\ pc' = "error"
                                     /\ err' = d.err
                                     /\ chain' = newChain(n)
                                     /\ UNCHANGED <<i, caNative, natives>>
                                ELSE /\ pc' = "loop"
                                     /\ err' = "none"
                                     /\ chain' = [newChain(n) EXCEPT ![n - 1] = deepCopy(root)]
                                     /\ caNative' = d.native
                                     /\ i' = n - 2
                                     /\ natives' = natives \cup {d.native}

\* CertChainRef makeCertChain(Arena&, VectorRef<CertSpecRef> specs, CertAndKeyRef rootAuthority)
Call_makeCertChain ==
    /\ pc = "idle"
    /\ \E sp \in SpecLists, root \in IssuerPems, fault \in Faults :
          /\ op' = "makeCertChain"
          /\ args' = [NoArgs EXCEPT !.specs = sp, !.rootAuthority = root]
          /\ EnterMakeCertChain(sp, root, fault)

\* CertChainRef makeCertChain(Arena&, unsigned length, ESide side)
Call_makeCertChain_length ==
    /\ pc = "idle"
    /\ \E length \in 0..MaxLen, side \in Sides, fault \in Faults :
       \E serials \in [1..length -> Serials] :
          /\ op' = "makeCertChain(length)"
          /\ args' = [NoArgs EXCEPT !.length = length, !.side = side]
          /\ IF length = 0
               THEN /\ pc' = "done"
                    /\ ret' = [NoRet EXCEPT !.returned = TRUE]
                    /\ UNCHANGED <<err, specs, rootAuthority, chainLength, chain, i,
                                   caNative, keysGenerated, signLog, natives>>
               ELSE EnterMakeCertChain(makeCertChainSpec(length, side, serials),
                                       EmptyRef, fault)

\* one iteration of makeCertChain's loop (either branch)
makeCertChain_loop ==
    /\ pc = "loop"
    /\ i >= 0
    /\ \E fault \in Faults : SignAndStore(specs, i, caNative, chain, fault)
    /\ UNCHANGED <<op, args, specs, rootAuthority, chainLength, ret>>

\* return CertChainRef(chain, chainLength)
makeCertChain_return ==
    /\ pc = "loop"
    /\ i < 0
    /\ pc' = "done"
    /\ ret' = [NoRet EXCEPT !.returned = TRUE, !.chain = chain]
    /\ UNCHANGED <<op, err, args, specs, rootAuthority, chainLength, chain, i, caNative,
                   keysGenerated, signLog, natives>>

\* the variables of makeCertChain's frame, untouched by the other functions
chainFrame == <<specs, rootAuthority, chainLength, chain, i, caNative>>

\* CertSpecRef CertSpecRef::make(Arena&, CertKind kind)
Call_CertSpecRef_make ==
    /\ pc = "idle"
    /\ \E kind \in CertKinds, serial \in Serials :
          /\ op' = "CertSpecRef::make"
          /\ args' = [NoArgs EXCEPT !.kind = kind]
          /\ ret' = [NoRet EXCEPT !.returned = TRUE, !.spec = CertSpecRef_make(kind, serial)]
    /\ pc' = "done"
    /\ UNCHANGED <<err, chainFrame, keysGenerated, signLog, natives>>

\* VectorRef<CertSpecRef> makeCertChainSpec(Arena&, unsigned length, ESide side)
Call_makeCertChainSpec ==
    /\ pc = "idle"
    /\ \E length \in 0..MaxLen, side \in Sides :
       \E serials \in [1..length -> Serials] :
          /\ op' = "makeCertChainSpec"
          /\ args' = [NoArgs EXCEPT !.length = length, !.side = side]
          /\ ret' = [NoRet EXCEPT !.returned = TRUE,
                                  !.specs = makeCertChainSpec(length, side, serials)]
    /\ pc' = "done"
    /\ UNCHANGED <<err, chainFrame, keysGenerated, signLog, natives>>

\* CertAndKeyNative::fromPem(certAndKey)
Call_fromPem ==
    /\ pc = "idle"
    /\ \E pem \in IssuerPems :
          LET d == fromPem(pem) IN
          /\ op' = "fromPem"
          /\ args' = [NoArgs EXCEPT !.issuer = pem]
          /\ err' = d.err
          /\ pc' = IF d.err = "none" THEN "done" ELSE "error"
          /\ natives' = IF d.err = "none" THEN {d.native} ELSE {}
          /\ ret' = IF d.err = "none"
                      THEN [NoRet EXCEPT !.returned = TRUE, !.native = d.native]
                      ELSE NoRet
    /\ UNCHANGED <<chainFrame, keysGenerated, signLog>>

\* CertAndKeyNative makeCertNative(CertSpecRef spec, CertAndKeyNative issuer)
Call_makeCertNative ==
    /\ pc = "idle"
    /\ \E spec \in CallerSpecs, issuer \in IssuerNatives, fault \in Faults \ {"pem"} :
          LET r == makeCertNative(spec, issuer, FreshKey(keysGenerated), fault) IN
          /\ op' = "makeCertNative"
          /\ args' = [NoArgs EXCEPT !.spec = spec, !.issuerNative = issuer]
          /\ err' = r.err
          /\ pc' = IF r.err = "none" THEN "done" ELSE "error"
          /\ keysGenerated' = keysGenerated + r.keygen
          /\ signLog' = Append(signLog, [pos |-> 0, issuer |-> issuer, fault |-> fault])
          /\ natives' = IF r.err = "none" THEN {r.native} ELSE {}
          /\ ret' = IF r.err = "none"
                      THEN [NoRet EXCEPT !.returned = TRUE, !.native = r.native]
                      ELSE NoRet
    /\ UNCHANGED chainFrame

\* CertAndKeyRef CertAndKeyRef::make(Arena&, CertSpecRef spec, CertAndKeyRef issuerPem)
Call_CertAndKeyRef_make ==
    /\ pc = "idle"
    /\ \E spec \in CallerSpecs, issuerPem \in IssuerPems, fault \in Faults :
          LET d == fromPem(issuerPem)
              r == IF d.err = "none"
                     THEN makeCertNative(spec, d.native, FreshKey(keysGenerated), fault)
                     ELSE [err |-> d.err, native |-> NullNative, keygen |-> 0]
              e == IF r.err = "none" THEN toPem(r.native, fault)
                   ELSE [err |-> r.err, pem |-> EmptyRef]
          IN /\ op' = "CertAndKeyRef::make"
             /\ args' = [NoArgs EXCEPT !.spec = spec, !.issuer = issuerPem]
             /\ err' = e.err
             /\ pc' = IF e.err = "none" THEN "done" ELSE "error"
             /\ keysGenerated' = keysGenerated + r.keygen
             /\ signLog' = IF d.err = "none"
                             THEN Append(signLog, [pos |-> 0, issuer |-> d.native,
                                                   fault |-> fault])
                             ELSE signLog
             /\ natives' = (IF d.err = "none" THEN {d.native} ELSE {})
                              \cup (IF r.err = "none" THEN {r.native} ELSE {})
             /\ ret' = IF e.err = "none"
                         THEN [NoRet EXCEPT !.returned = TRUE, !.pem = e.pem]
                         ELSE NoRet
    /\ UNCHANGED chainFrame

\* StringRef concatCertChain(Arena&, CertChainRef chain)
Call_concatCertChain ==
    /\ pc = "idle"
    /\ \E ch \in ConcatChains :
          LET c == concatCertChain(ch) IN
          /\ op' = "concatCertChain"
          /\ args' = [NoArgs EXCEPT !.chain = ch]
          /\ err' = c.err
          /\ pc' = IF c.err = "none" THEN "done" ELSE "error"
          /\ ret' = IF c.err = "none"
                      THEN [NoRet EXCEPT !.returned = TRUE, !.bytes = c.bytes]
                      ELSE NoRet
    /\ UNCHANGED <<chainFrame, keysGenerated, signLog, natives>>

\* the call is over (returned or threw); the caller is free to make another
Return ==
    /\ pc \in {"done", "error"}
    /\ op' = "none"
    /\ pc' = "idle"
    /\ err' = "none"
    /\ args' = NoArgs
    /\ specs' = <<>>
    /\ rootAuthority' = EmptyRef
    /\ chainLength' = 0
    /\ chain' = <<>>
    /\ i' = 0
    /\ caNative' = NullNative
    /\ keysGenerated' = 0
    /\ signLog' = <<>>
    /\ natives' = {}
    /\ ret' = NoRet

Next ==
    \/ Call_CertSpecRef_make
    \/ Call_makeCertChainSpec
    \/ Call_fromPem
    \/ Call_makeCertNative
    \/ Call_CertAndKeyRef_make
    \/ Call_concatCertChain
    \/ Call_makeCertChain
    \/ Call_makeCertChain_length
    \/ makeCertChain_loop
    \/ makeCertChain_return
    \/ Return

Spec == Init /\ [][Next]_vars

\* ================================================================== claims
\* What a chain entry's texts decode to
CertOf(entry) == readX509CertPem(entry.certPem).cert
KeyOf(entry) == readPrivateKeyPem(entry.privateKeyPem).key

ChainOps == {"makeCertChain", "makeCertChain(length)"}
ChainReturned == op \in ChainOps /\ pc = "done" /\ ret.returned /\ Len(specs) >= 1

\* C1: a chain returned with no rootAuthority ends in a self-signed entry
\* (issuer name = its subject name, signed with its own newly generated key),
\* and every entry i below the last names entry i+1's subject as issuer and is
\* signed with entry i+1's private key: not with its own, not with the root's.
C1_AbsentRootLinkage ==
    (ChainReturned /\ empty(rootAuthority)) =>
        LET n == Len(specs)
            c == ret.chain
        IN /\ DOMAIN c = 0..(n - 1)
           /\ CertOf(c[n - 1]).issuer = CertOf(c[n - 1]).subject
           /\ CertOf(c[n - 1]).signedWith = KeyOf(c[n - 1])
           /\ KeyOf(c[n - 1]) \notin ExternalKeys \cup {NullKey}
           /\ \A k \in 0..(n - 2) :
                /\ CertOf(c[k]).issuer = CertOf(c[k + 1]).subject
                /\ CertOf(c[k]).signedWith = KeyOf(c[k + 1])
                /\ CertOf(c[k]).signedWith # KeyOf(c[k])
                /\ (k + 1 < n - 1) => CertOf(c[k]).signedWith # KeyOf(c[n - 1])

\* C1 witness: a chain of three or more entries was returned with no rootAuthority
C1_Witness ==
    /\ ChainReturned
    /\ empty(rootAuthority)
    /\ Len(specs) >= 3
    /\ CertOf(ret.chain[0]).signedWith = KeyOf(ret.chain[1])

\* C2: a chain returned for a supplied rootAuthority ends in that rootAuthority,
\* text for text, with no key generated and no signature made for it; the last
\* spec's entry is issued by and signed with the decoded root's private key, and
\* every entry below is signed with the private key of the entry above it.
C2_SuppliedRootKept ==
    (ChainReturned /\ ~empty(rootAuthority)) =>
        LET n == Len(specs)
            c == ret.chain
            rootCert == readX509CertPem(rootAuthority.certPem).cert
            rootKey == readPrivateKeyPem(rootAuthority.privateKeyPem).key
        IN /\ DOMAIN c = 0..n
           /\ c[n] = args.rootAuthority
           /\ c[n].certPem = args.rootAuthority.certPem
           /\ c[n].privateKeyPem = args.rootAuthority.privateKeyPem
           /\ keysGenerated = n
           /\ \A k \in 1..Len(signLog) : signLog[k].pos < n
           /\ CertOf(c[n - 1]).issuer = rootCert.subject
           /\ CertOf(c[n - 1]).signedWith = rootKey
           /\ \A k \in 0..(n - 2) : CertOf(c[k]).signedWith = KeyOf(c[k + 1])

\* C2 witness: a two-spec chain was returned under a supplied root authority
C2_Witness ==
    /\ ChainReturned
    /\ ~empty(rootAuthority)
    /\ Len(specs) = 2
    /\ ret.chain[2] = args.rootAuthority
    /\ CertOf(ret.chain[1]).signedWith = KeyOf(args.rootAuthority)

\* the certificate was built from the spec: its serial number, validity
\* offsets, subject name and extensions (names and values, in order) are the spec's
BuiltFrom(cert, spec) ==
    /\ cert # NullCert
    /\ cert.serialNumber = spec.serialNumber
    /\ cert.notBefore = spec.offsetNotBefore
    /\ cert.notAfter = spec.offsetNotAfter
    /\ cert.subject = spec.subjectName
    /\ Len(cert.extensions) = Len(spec.extensions)
    /\ \A k \in 1..Len(spec.extensions) :
          <<cert.extensions[k].name, cert.extensions[k].value>> = spec.extensions[k]

\* C3: a returned chain has specs.size() entries without a rootAuthority and
\* specs.size()+1 with one; entry i is the certificate built from specs[i];
\* the last index holds the root; no entry is left unset.
C3_LengthAndOrder ==
    ChainReturned =>
        LET n == Len(specs)
            c == ret.chain
            last == IF empty(rootAuthority) THEN n - 1 ELSE n
        IN /\ DOMAIN c = 0..last
           /\ ChainSize(c) = IF empty(rootAuthority) THEN n ELSE n + 1
           /\ \A k \in DOMAIN c :
                c[k].certPem # EmptyText /\ c[k].privateKeyPem # EmptyText
           /\ \A k \in 0..(n - 1) : BuiltFrom(CertOf(c[k]), specs[k + 1])
           /\ IF empty(rootAuthority)
                THEN /\ CertOf(c[last]).issuer = CertOf(c[last]).subject
                     /\ CertOf(c[last]).signedWith = KeyOf(c[last])
                ELSE c[last] = rootAuthority

\* C3 witness: a chain over three different specs was returned under a root authority
C3_Witness ==
    /\ ChainReturned
    /\ ~empty(rootAuthority)
    /\ Len(specs) = 3
    /\ ChainSize(ret.chain) = 4
    /\ specs[1] # specs[2]
    /\ specs[2] # specs[3]

\* the kind the spec was built from, judged by the spec itself
IsSpecOf(spec, kind) == spec = CertSpecRef_make(kind, spec.serialNumber)
LeafOf(side) == IF side = "Server" THEN Server ELSE Client
RootOf(side) == IF side = "Server" THEN ServerRootCA ELSE ClientRootCA
IntermediateOf(side, d) ==
    IF side = "Server" THEN ServerIntermediateCA(d) ELSE ClientIntermediateCA(d)

SpecsReturned == op = "makeCertChainSpec" /\ pc = "done" /\ ret.returned

\* C4 as stated: for every length >= 1, makeCertChainSpec returns `length`
\* specs with a leaf at position 0, the root CA at position length-1 and an
\* intermediate CA of depth i at every position i between them.
C4_AsStated ==
    (SpecsReturned /\ args.length >= 1) =>
        /\ Len(ret.specs) = args.length
        /\ IsSpecOf(ret.specs[1], LeafOf(args.side))
        /\ IsSpecOf(ret.specs[args.length], RootOf(args.side))
        /\ \A p \in 1..(args.length - 2) :
              IsSpecOf(ret.specs[p + 1], IntermediateOf(args.side, p))

\* C4 amended: for every length >= 1, makeCertChainSpec returns `length` specs
\* with a leaf at position 0 and an intermediate CA of depth i at every
\* position 0 < i < length-1; position length-1 is the root CA when length >= 2,
\* and for length 1 the single spec is the leaf and there is no root CA.
C4_LeafFirst ==
    (SpecsReturned /\ args.length >= 1) =>
        /\ Len(ret.specs) = args.length
        /\ IsSpecOf(ret.specs[1], LeafOf(args.side))
        /\ (args.length >= 2) => IsSpecOf(ret.specs[args.length], RootOf(args.side))
        /\ (args.length = 1) => ~IsSpecOf(ret.specs[1], RootOf(args.side))
        /\ \A p \in 1..(args.length - 2) :
              IsSpecOf(ret.specs[p + 1], IntermediateOf(args.side, p))

\* C4 witness: the three-spec client list leaf, intermediate 1, root was returned
C4_Witness ==
    /\ SpecsReturned
    /\ args.length = 3
    /\ args.side = "Client"
    /\ IsSpecOf(ret.specs[2], ClientIntermediateCA(1))
    /\ IsSpecOf(ret.specs[3], ClientRootCA)

HasExt(spec, name, value) ==
    \E k \in 1..Len(spec.extensions) : spec.extensions[k] = <<name, value>>
HasExtNamed(spec, name) ==
    \E k \in 1..Len(spec.extensions) : spec.extensions[k][1] = name

RolePolicy(kind, spec) ==
    /\ isCA(kind) =>
          /\ HasExt(spec, "basicConstraints", "critical, CA:TRUE")
          /\ ~HasExtNamed(spec, "extendedKeyUsage")
    /\ isLeaf(kind) =>
          /\ HasExt(spec, "basicConstraints", "critical, CA:FALSE")
          /\ HasExt(spec, "extendedKeyUsage", "serverAuth, clientAuth")
    /\ HasExt(spec, "subjectKeyIdentifier", "hash")
    /\ ~isRootCA(kind) => HasExt(spec, "authorityKeyIdentifier", "keyid, issuer")
    /\ isRootCA(kind) => ~HasExtNamed(spec, "authorityKeyIdentifier")

SpecMade == op = "CertSpecRef::make" /\ pc = "done" /\ ret.returned

\* the specs makeCertChain(length, side) signs with no issuer have no
\* authorityKeyIdentifier extension
SelfSignedSpecsHaveNoAKI ==
    \A k \in 1..Len(signLog) :
        null(signLog[k].issuer) =>
            ~HasExtNamed(specs[signLog[k].pos + 1], "authorityKeyIdentifier")

\* C5 as stated: every spec CertSpecRef::make builds follows the role policy
\* (CA kinds: CA:TRUE and no extendedKeyUsage; leaf kinds: CA:FALSE and
\* extendedKeyUsage; all: subjectKeyIdentifier; all but root CAs, and never a
\* root CA: authorityKeyIdentifier), and so every spec makeCertChainSpec puts
\* at a position makeCertChain self-signs has no authorityKeyIdentifier.
C5_AsStated ==
    /\ SpecMade => RolePolicy(args.kind, ret.spec)
    /\ (op = "makeCertChain(length)" /\ pc = "done") => SelfSignedSpecsHaveNoAKI

\* C5 amended: every spec CertSpecRef::make builds follows the role policy;
\* for length >= 2 the spec makeCertChain self-signs is the root CA's and has
\* no authorityKeyIdentifier; for length 1 the spec that is self-signed is the
\* leaf's, which does carry authorityKeyIdentifier = keyid, issuer.
C5_RolePolicy ==
    /\ SpecMade => RolePolicy(args.kind, ret.spec)
    /\ (op = "makeCertChain(length)" /\ args.length >= 2) => SelfSignedSpecsHaveNoAKI
    /\ (op = "makeCertChain(length)" /\ args.length = 1) =>
          \A k \in 1..Len(signLog) :
              /\ null(signLog[k].issuer)
              /\ IsSpecOf(specs[signLog[k].pos + 1], LeafOf(args.side))
              /\ HasExt(specs[signLog[k].pos + 1], "authorityKeyIdentifier", "keyid, issuer")

\* C5 witness: a chain of two or more was made from a length, and its
\* self-signed entry came from a root CA spec
C5_Witness ==
    /\ op = "makeCertChain(length)"
    /\ pc = "done"
    /\ args.length >= 2
    /\ null(signLog[1].issuer)
    /\ IsSpecOf(specs[signLog[1].pos + 1], RootOf(args.side))

NoSpecsGiven ==
    \/ op = "makeCertChain" /\ Len(args.specs) = 0
    \/ op \in {"makeCertChain(length)", "makeCertChainSpec"} /\ args.length = 0

\* C6 as stated: every chain-assembly entry point given zero specs (an empty
\* spec list, or length 0) ends in an error and returns nothing.
C6_AsStated ==
    NoSpecsGiven => (pc = "error" /\ err # "none" /\ ~ret.returned)

\* C6 amended: makeCertChain over an empty spec list throws before any key is
\* generated and returns no chain; makeCertChain(0, side) and
\* makeCertChainSpec(0, side) throw nothing and return an empty chain and an
\* empty spec list.
C6_EmptySpecs ==
    /\ (op = "makeCertChain" /\ Len(args.specs) = 0) =>
          /\ pc = "error"
          /\ err = "internal_error"
          /\ ~ret.returned
          /\ keysGenerated = 0
          /\ signLog = <<>>
    /\ (op = "makeCertChain(length)" /\ args.length = 0) =>
          /\ pc = "done"
          /\ err = "none"
          /\ ret.returned
          /\ ret.chain = <<>>
          /\ keysGenerated = 0
    /\ (op = "makeCertChainSpec" /\ args.length = 0) =>
          /\ pc = "done"
          /\ err = "none"
          /\ ret.returned
          /\ ret.specs = <<>>

\* C6 witness: makeCertChain was called with an empty spec list and threw
C6_Witness ==
    /\ op = "makeCertChain"
    /\ Len(args.specs) = 0
    /\ pc = "error"
    /\ err = "internal_error"

\* the sign steps of the call, in order, each with what the provider did
SignFailedAt(k) == signLog[k].fault # "none"

\* C7: when a sign step of makeCertChain fails, the call ends in an error, the
\* failed step is the last step made (nothing is signed after it, and it is
\* not made again), and no chain is returned; a chain is returned only after
\* every spec was signed exactly once, from the last spec down to the first,
\* with no failure.
C7_AtomicNoRetry ==
    (op \in ChainOps) =>
        /\ \A k \in 1..Len(signLog) :
              SignFailedAt(k) =>
                  /\ k = Len(signLog)
                  /\ pc = "error"
                  /\ err # "none"
                  /\ ~ret.returned
                  /\ ret.chain = <<>>
        /\ \A j, k \in 1..Len(signLog) : j < k => signLog[k].pos < signLog[j].pos
        /\ (pc = "error") => (~ret.returned /\ ret.chain = <<>>)
        /\ (pc = "done" /\ Len(specs) >= 1) =>
              /\ Len(signLog) = Len(specs)
              /\ \A k \in 1..Len(signLog) :
                    /\ ~SignFailedAt(k)
                    /\ signLog[k].pos = Len(specs) - k

\* C7 witness: the second sign step of a three-spec chain failed in the provider
C7_Witness ==
    /\ op = "makeCertChain"
    /\ pc = "error"
    /\ Len(specs) = 3
    /\ Len(signLog) = 2
    /\ signLog[2].fault = "x509"
    /\ ~ret.returned

PartialRef(ref) == (ref.certPem = EmptyText) # (ref.privateKeyPem = EmptyText)
PartialNative(n) == ~valid(n) /\ ~null(n)

\* the call threw an assertion failure: no key pair was generated, no
\* certificate or native pair came to exist, nothing was returned
AbortedBeforeKeygen ==
    /\ pc = "error"
    /\ err = "internal_error"
    /\ keysGenerated = 0
    /\ natives = {}
    /\ ~ret.returned
    /\ ret = NoRet
    /\ \A k \in DOMAIN chain : chain[k] = EmptyRef

\* C8: an issuer with exactly one of certificate and private key makes
\* makeCertNative, CertAndKeyRef::make, CertAndKeyNative::fromPem and
\* makeCertChain (as rootAuthority) throw an assertion failure before any key
\* pair is generated; no certificate results and no self-signed one is made.
C8_PartialIssuerAborts ==
    /\ (op = "makeCertNative" /\ PartialNative(args.issuerNative)) => AbortedBeforeKeygen
    /\ (op \in {"CertAndKeyRef::make", "fromPem"} /\ PartialRef(args.issuer)) =>
          (AbortedBeforeKeygen /\ signLog = <<>>)
    /\ (op = "makeCertChain" /\ PartialRef(args.rootAuthority)) =>
          (AbortedBeforeKeygen /\ signLog = <<>>)

\* C8 witness: makeCertNative was called with a certificate and no key, and threw
C8_Witness ==
    /\ op = "makeCertNative"
    /\ args.issuerNative.cert # NullCert
    /\ args.issuerNative.privateKey = NullKey
    /\ pc = "error"

\* the certificate texts of a chain, one after the other
RECURSIVE Joined(_, _)
Joined(ch, k) ==
    IF k >= ChainSize(ch) THEN <<>> ELSE ch[k].certPem \o Joined(ch, k + 1)

\* C9: concatCertChain returns the entries' certificate texts in chain order
\* and nothing else; its length is the sum of their lengths; it is empty for
\* the empty chain. It never throws.
C9_Concat ==
    (op = "concatCertChain") =>
        /\ pc = "done"
        /\ err = "none"
        /\ ret.bytes = Joined(args.chain, 0)
        /\ Len(ret.bytes) = SumCertSizes(args.chain, 0)
        /\ \A b \in 1..Len(ret.bytes) : ret.bytes[b].type # "JUNK"
        /\ (ChainSize(args.chain) = 0) => ret.bytes = EmptyText

\* C9 witness: a two-entry chain with key texts, whose first certificate text
\* is empty and whose second has two blocks, was concatenated
C9_Witness ==
    /\ op = "concatCertChain"
    /\ pc = "done"
    /\ ChainSize(args.chain) = 2
    /\ args.chain[0].certPem = EmptyText
    /\ args.chain[0].privateKeyPem # EmptyText
    /\ Len(args.chain[1].certPem) = 2
    /\ Len(ret.bytes) = 2

\* C10: every native certificate-and-key pair that comes to exist, signed or
\* decoded, holds the private key of the public key in its certificate.
C10_KeyMatchesCert ==
    \A n \in natives : valid(n) => n.cert.pubkey = n.privateKey

====
